---- MODULE Spec2Model ----
(***************************************************************************)
(* Model of flask_admin/model/form.py: the converter registry and its      *)
(* resolver (ModelConverterBase), the list-form transformer                *)
(* (create_editable_list_form), the inline descriptors                     *)
(* (InlineBaseFormAdmin, InlineFormAdmin) with their change hook, and the  *)
(* inline converter base (InlineModelConverterBase).                       *)
(*                                                                         *)
(* Python objects that are shared by reference (dicts, UnboundField        *)
(* objects, descriptor instances) live in heaps indexed by identity, so    *)
(* that aliasing is visible.                                               *)
(***************************************************************************)
EXTENDS Integers, Sequences, FiniteSets, TLC

VARIABLES
    dicts,        \* heap of dict objects: Seq of mappings identifier -> converter
    callerDicts,  \* identities of the dicts the caller built to pass as a seed
    registries,   \* the ModelConverterBase instances: [use_mro, converters (a dict identity)]
    srcForm,      \* __dict__ of the source form class: attribute name -> kind of object
    kwargsWidget, \* kwargs['widget'] of each UnboundField object of the source form class
    derived,      \* the ListForm classes returned so far
    ncalls,       \* number of create_editable_list_form calls made
    descriptors,  \* heap of inline descriptors: [cls, hook, attrs]
    hookLog,      \* per descriptor: wrapper invocations, warnings, hook calls, body runs
    view,         \* the view the InlineModelConverterBase was constructed with
    last          \* the operation performed last, with its arguments and its outcome

inlineVars == <<descriptors, hookLog, view>>
registryVars == <<dicts, callerDicts, registries>>
formVars == <<srcForm, kwargsWidget, derived, ncalls>>
vars == <<dicts, callerDicts, registries, srcForm, kwargsWidget, derived, ncalls,
          descriptors, hookLog, view, last>>

None == "None"
NoOp == [op |-> "none"]

\* a column_labels that is None or missing, and one that is a dict
NoLabels == [none |-> TRUE, items |-> <<>>]
Labels(items) == [none |-> FALSE, items |-> items]

\* no InlineModelConverterBase constructed yet
NoView == [constructed |-> FALSE, column_labels |-> NoLabels]

----------------------------------------------------------------------------
(* Bounds *)

MaxRegistries == 2
MaxListForms == 2
MaxDescriptors == 2
MaxInvocations == 2

----------------------------------------------------------------------------
(* Python mappings *)

EmptyDict == [k \in {} |-> None]

\* `not d` for a dict d
EmptyMapping(d) == DOMAIN d = {}

\* the default `converters=None` of ModelConverterBase.__init__
NoSeed == 0

----------------------------------------------------------------------------
(* Column types: the classes of `column.type`, each with its __module__,   *)
(* its __name__ and its method resolution order.                           *)

ColTypes == {"T", "A", "B", "OtherA"}

TypeModule(t) ==
    CASE t = "T" -> "app"
      [] t = "A" -> "lib"
      [] t = "B" -> "lib"
      [] t = "OtherA" -> "other"
      [] t = "object" -> "builtins"

TypeName(t) ==
    CASE t = "T" -> "T"
      [] t = "A" -> "A"
      [] t = "B" -> "B"
      [] t = "OtherA" -> "A"
      [] t = "object" -> "object"

\* inspect.getmro(cls): the class itself first, then its ancestors
getmro(t) ==
    CASE t = "T" -> <<"T", "A", "B", "object">>
      [] t = "A" -> <<"A", "B", "object">>
      [] t = "B" -> <<"B", "object">>
      [] t = "OtherA" -> <<"OtherA", "object">>
      [] t = "object" -> <<"object">>

\* '%s.%s' % (col_type.__module__, col_type.__name__)
type_string(t) == TypeModule(t) \o "." \o TypeName(t)

----------------------------------------------------------------------------
(* converts: tags a function with the identifiers it converts *)

converts(name, args) == [name |-> name, converter_for |-> args]

\* a member of the converter object without a tag
Plain(name) == [name |-> name]

\* hasattr(obj, '_converter_for')
HasTag(obj) == "converter_for" \in DOMAIN obj

\* The members of a converter object in dir() order, which is sorted by name.
ConverterClasses ==
    {<<a, b, Plain("get_form")>> :
        a \in {Plain("conv_a"), converts("conv_a", {"lib.B", "A"})},
        b \in {Plain("conv_b"), converts("conv_b", {"B"}),
               converts("conv_b", {"lib.A", "A"})}}

SeedMappings ==
    {EmptyDict,
     [k \in {"B", "T"} |-> IF k = "T" THEN "seed_g" ELSE "seed_f"]}

----------------------------------------------------------------------------
(* ModelConverterBase.__init__ *)

\* a registration that keeps an entry already present
RegisterKeepExisting(converters, obj) ==
    [k \in DOMAIN converters \cup obj.converter_for |->
        IF k \in DOMAIN converters THEN converters[k] ELSE obj.name]

\* for classname in obj._converter_for: converters[classname] = obj
Register(converters, obj) ==
    [k \in DOMAIN converters \cup obj.converter_for |->
        IF k \in obj.converter_for THEN obj.name ELSE converters[k]]

RECURSIVE ScanMembers(_, _, _)
ScanMembers(members, i, converters) ==
    IF i > Len(members) THEN converters
    ELSE ScanMembers(members, i + 1,
            IF HasTag(members[i]) THEN Register(converters, members[i])
            ELSE converters)

\* `if not converters: converters = {}`: TRUE when a new dict is made
MakesNewDict(seed) == seed = NoSeed \/ EmptyMapping(dicts[seed])

ModelConverterBase_init(members, seed, use_mro) ==
    /\ Len(registries) < MaxRegistries
    /\ LET new == MakesNewDict(seed)
           ref == IF new THEN Len(dicts) + 1 ELSE seed
           start == IF new THEN EmptyDict ELSE dicts[seed]
           built == ScanMembers(members, 1, start)
       IN /\ dicts' = IF new THEN Append(dicts, built)
                      ELSE [dicts EXCEPT ![seed] = built]
          /\ registries' = Append(registries, [use_mro |-> use_mro, converters |-> ref])
          /\ last' = [op |-> "__init__", members |-> members,
                      seed |-> IF seed = NoSeed THEN EmptyDict ELSE dicts[seed],
                      reg |-> Len(registries) + 1]
    /\ UNCHANGED <<callerDicts, formVars, inlineVars>>

\* The caller builds a dict to pass as `converters`.
NewSeed(m) ==
    /\ callerDicts = {}
    /\ dicts' = Append(dicts, m)
    /\ callerDicts' = callerDicts \cup {Len(dicts) + 1}
    /\ last' = [op |-> "seed"]
    /\ UNCHANGED <<registries, formVars, inlineVars>>

----------------------------------------------------------------------------
(* ModelConverterBase.get_converter *)

NotFound == "NotFound"

\* for col_type in types: if type_string in self.converters: return ...
RECURSIVE SearchByTypeString(_, _, _)
SearchByTypeString(converters, types, i) ==
    IF i > Len(types) THEN NotFound
    ELSE IF type_string(types[i]) \in DOMAIN converters
         THEN converters[type_string(types[i])]
         ELSE SearchByTypeString(converters, types, i + 1)

\* for col_type in types: if col_type.__name__ in self.converters: return ...
RECURSIVE SearchByName(_, _, _)
SearchByName(converters, types, i) ==
    IF i > Len(types) THEN NotFound
    ELSE IF TypeName(types[i]) \in DOMAIN converters
         THEN converters[TypeName(types[i])]
         ELSE SearchByName(converters, types, i + 1)

\* a resolver that tries the bare names first
get_converter_name_first(converters, use_mro, col) ==
    LET types == IF use_mro THEN getmro(col) ELSE <<col>>
        n == SearchByName(converters, types, 1)
        q == SearchByTypeString(converters, types, 1)
    IN IF n # NotFound THEN n ELSE IF q # NotFound THEN q ELSE None

get_converter(converters, use_mro, col) ==
    LET types == IF use_mro THEN getmro(col) ELSE <<col>>
        q == SearchByTypeString(converters, types, 1)
        n == SearchByName(converters, types, 1)
    IN IF q # NotFound THEN q ELSE IF n # NotFound THEN n ELSE None

GetConverter(r, col) ==
    /\ last' = [op |-> "get_converter", reg |-> r, col |-> col,
                result |-> get_converter(dicts[registries[r].converters],
                                         registries[r].use_mro, col)]
    /\ UNCHANGED <<registryVars, formVars, inlineVars>>

----------------------------------------------------------------------------
(* create_editable_list_form *)

AttrNames == {"a", "b", "list_form_pk", "__module__"}

Absent == "absent"

\* no source form class defined yet
NoForm == [n \in AttrNames |-> Absent]

\* The source form classes: each attribute name is an UnboundField, some
\* other object, or not in the class __dict__; __module__ is always there.
FormClasses ==
    {f \in [AttrNames -> {"UnboundField", "other", Absent}] : f["__module__"] = "other"}

\* the keys of form_class.__dict__
DictKeys(form_class) == {n \in AttrNames : form_class[n] # Absent}

\* the fields declared on the form class
Fields(form_class) == {n \in AttrNames : form_class[n] = "UnboundField"}

\* the orders in which iteritems may yield the keys
IterOrders(keys) ==
    {o \in [1..Cardinality(keys) -> keys] : \A i, j \in DOMAIN o : o[i] = o[j] => i = j}

\* no widget: a field whose kwargs hold no 'widget', or the argument widget=None
NoWidget == [cls |-> "none", inst |-> 0]
CallerWidgets == {[cls |-> "Select2Widget", inst |-> 1], [cls |-> "TextArea", inst |-> 1]}

\* `if widget is None: widget = XEditableWidget()`: a new instance per call
XEditableWidget(call) == [cls |-> "XEditableWidget", inst |-> call]

\* list_form_pk = HiddenField(validators=[InputRequired()]), made in the
\* body of the ListForm class of this call
HiddenField(call) ==
    [obj |-> "HiddenField", validators |-> <<"InputRequired">>, call |-> call]

\* a reference to the UnboundField object the source form class holds under `name`
SourceField(name) == [obj |-> "UnboundField", name |-> name]

\* a test that takes every attribute for a field
isinstance_any(kind) == kind # Absent

\* isinstance(obj, UnboundField)
isinstance_UnboundField(kind) == kind = "UnboundField"

\* a test that never sees the collision
is_reserved_never(name) == FALSE

\* name == "list_form_pk"
is_reserved(name) == name = "list_form_pk"

\* setattr(ListForm, name, obj)
setattr(attrs, name, obj) ==
    [n \in DOMAIN attrs \cup {name} |-> IF n = name THEN obj ELSE attrs[n]]

\* The loop over iteritems(form_class.__dict__), from position i of the
\* iteration order; st is [kwargs, attrs, raised].
RECURSIVE CopyFields(_, _, _, _, _)
CopyFields(form_class, order, i, widget, st) ==
    IF i > Len(order) THEN st
    ELSE LET name == order[i]
         IN IF isinstance_UnboundField(form_class[name])
            THEN LET st2 == [kwargs |-> [st.kwargs EXCEPT ![name] = widget],
                             attrs |-> setattr(st.attrs, name, SourceField(name)),
                             raised |-> is_reserved(name)]
                 IN IF st2.raised THEN st2
                    ELSE CopyFields(form_class, order, i + 1, widget, st2)
            ELSE CopyFields(form_class, order, i + 1, widget, st)

\* The outcome of one call: the kwargs of the source fields afterwards,
\* whether the call raised, and the ListForm class it built.
create_editable_list_form(form_base_class, form_class, widget, order, kwargs, call) ==
    LET w == IF widget = NoWidget THEN XEditableWidget(call) ELSE widget
        st == CopyFields(form_class, order, 1, w,
                  [kwargs |-> kwargs,
                   attrs |-> [n \in {"list_form_pk"} |-> HiddenField(call)],
                   raised |-> FALSE])
    IN [kwargs |-> st.kwargs, raised |-> st.raised,
        ListForm |-> [base |-> form_base_class, attrs |-> st.attrs, widget |-> w]]

\* The caller defines the source form class.
DefineForm(f) ==
    /\ srcForm = NoForm
    /\ srcForm' = f
    /\ kwargsWidget' = [n \in Fields(f) |-> NoWidget]
    /\ last' = [op |-> "class"]
    /\ UNCHANGED <<derived, ncalls, registryVars, inlineVars>>

CreateEditableListForm(widget, order) ==
    /\ srcForm # NoForm
    /\ ncalls < MaxListForms
    /\ LET res == create_editable_list_form("BaseForm", srcForm, widget, order,
                                            kwargsWidget, ncalls + 1)
       IN /\ kwargsWidget' = res.kwargs
          /\ derived' = IF res.raised THEN derived ELSE Append(derived, res.ListForm)
          /\ last' = [op |-> "create_editable_list_form", raised |-> res.raised,
                      order |-> order,
                      ret |-> IF res.raised THEN 0 ELSE Len(derived) + 1]
    /\ ncalls' = ncalls + 1
    /\ UNCHANGED <<srcForm, registryVars, inlineVars>>

----------------------------------------------------------------------------
(* InlineBaseFormAdmin and InlineFormAdmin *)

\* truth value of an attribute value: None and the empty string are false
Truthy(v) == v # None /\ v # ""

\* getattr(obj, name, None) on the attributes of an object
getattr(attrs, name) == IF name \in DOMAIN attrs THEN attrs[name] ELSE None

\* InlineBaseFormAdmin._defaults
defaults ==
    {"form_base_class", "form_columns", "form_excluded_columns", "form_args",
     "form_extra_fields"}

\* rules.RuleSet(self, form_rules), built outside this module
RuleSet(form_rules) == "RuleSet(" \o form_rules \o ")"

\* InlineBaseFormAdmin.__init__: `attrs` are the attributes the instance
\* already has (those of its class, and model for the relational variant).
InlineBaseFormAdmin_init(attrs, kwargs) ==
    LET withDefaults == [k \in DOMAIN attrs \cup defaults |->
                            IF k \in DOMAIN attrs THEN attrs[k] ELSE None]
        withKwargs == [k \in DOMAIN withDefaults \cup DOMAIN kwargs |->
                            IF k \in DOMAIN kwargs THEN kwargs[k] ELSE withDefaults[k]]
        form_rules == getattr(withKwargs, "form_rules")
    IN [k \in DOMAIN withKwargs \cup {"_form_rules"} |->
            IF k = "_form_rules"
            THEN (IF Truthy(form_rules) THEN RuleSet(form_rules) ELSE None)
            ELSE withKwargs[k]]

\* InlineFormAdmin.__init__: self.model = model, then the base constructor
InlineFormAdmin_init(attrs, model, kwargs) ==
    InlineBaseFormAdmin_init(
        [k \in DOMAIN attrs \cup {"model"} |-> IF k = "model" THEN model ELSE attrs[k]],
        kwargs)

\* The on_model_change of a descriptor class: the parameters it declares,
\* and what its body does.
HookParams == {"form, model", "form, model, is_created", "form, model, is_created=None"}
HookBodies == {"pass", "raise TypeError", "raise ValueError"}
Hooks == [params : HookParams, body : HookBodies]

\* InlineBaseFormAdmin.on_model_change: three parameters, `pass`
on_model_change == [params |-> "form, model, is_created", body |-> "pass"]

NewLog == [invocations |-> 0, warnings |-> 0, calls |-> 0, runs |-> 0]

\* The caller constructs a descriptor of a subclass of InlineBaseFormAdmin.
NewInlineBaseFormAdmin(hook, classAttrs, kwargs) ==
    /\ Len(descriptors) < MaxDescriptors
    /\ descriptors' = Append(descriptors,
            [cls |-> "InlineBaseFormAdmin", hook |-> hook,
             attrs |-> InlineBaseFormAdmin_init(classAttrs, kwargs)])
    /\ hookLog' = Append(hookLog, NewLog)
    /\ last' = [op |-> "InlineBaseFormAdmin"]
    /\ UNCHANGED <<view, registryVars, formVars>>

\* The caller constructs a descriptor of a subclass of InlineFormAdmin.
NewInlineFormAdmin(hook, classAttrs, model, kwargs) ==
    /\ Len(descriptors) < MaxDescriptors
    /\ descriptors' = Append(descriptors,
            [cls |-> "InlineFormAdmin", hook |-> hook,
             attrs |-> InlineFormAdmin_init(classAttrs, model, kwargs)])
    /\ hookLog' = Append(hookLog, NewLog)
    /\ last' = [op |-> "InlineFormAdmin"]
    /\ UNCHANGED <<view, registryVars, formVars>>

----------------------------------------------------------------------------
(* InlineBaseFormAdmin._on_model_change *)

\* Calling the hook with nargs arguments after self: a call the signature
\* rejects raises TypeError before the body runs; otherwise the body runs.
CallHook(hook, nargs) ==
    LET accepted == \/ hook.params = "form, model" /\ nargs = 2
                    \/ hook.params = "form, model, is_created" /\ nargs = 3
                    \/ hook.params = "form, model, is_created=None"
    IN IF ~accepted THEN [ran |-> <<>>, error |-> "TypeError: arguments"]
       ELSE [ran |-> <<nargs>>,
             error |-> CASE hook.body = "pass" -> None
                         [] hook.body = "raise TypeError" -> "TypeError: body"
                         [] hook.body = "raise ValueError" -> "ValueError: body"]

\* except TypeError
IsTypeError(e) == e \in {"TypeError: arguments", "TypeError: body"}

\* The outcome of one wrapper invocation: warnings emitted, hook calls made,
\* the argument counts the body ran with, and the error that reaches the caller.
_on_model_change(d) ==
    LET first == CallHook(d.hook, 3)
    IN IF ~IsTypeError(first.error)
       THEN [warnings |-> 0, calls |-> 1, ran |-> first.ran, error |-> first.error]
       ELSE IF "model" \notin DOMAIN d.attrs
       THEN [warnings |-> 0, calls |-> 1, ran |-> first.ran,
             error |-> "AttributeError: model"]
       ELSE LET second == CallHook(d.hook, 2)
            IN [warnings |-> 1, calls |-> 2, ran |-> first.ran \o second.ran,
                error |-> second.error]

OnModelChange(i, is_created) ==
    /\ hookLog[i].invocations < MaxInvocations
    /\ LET res == _on_model_change(descriptors[i])
       IN /\ hookLog' = [hookLog EXCEPT ![i] =
                [invocations |-> @.invocations + 1,
                 warnings |-> @.warnings + res.warnings,
                 calls |-> @.calls + res.calls,
                 runs |-> @.runs + Len(res.ran)]]
          /\ last' = [op |-> "_on_model_change", d |-> i, is_created |-> is_created,
                      ran |-> res.ran, error |-> res.error]
    /\ UNCHANGED <<descriptors, view, registryVars, formVars>>

----------------------------------------------------------------------------
(* InlineModelConverterBase *)

\* The views: column_labels missing or None, empty, or with entries.
Views ==
    {[constructed |-> TRUE, column_labels |-> cl] :
        cl \in {NoLabels, Labels(EmptyDict),
                Labels([k \in {"email"} |-> "E-mail"]),
                Labels([k \in {"email", "name"} |-> IF k = "email" THEN "E-mail" ELSE ""])}}

FieldNames == {"email", "name"}

\* InlineModelConverterBase.__init__: self.view = view
NewInlineModelConverter(v) ==
    /\ view = NoView
    /\ view' = v
    /\ last' = [op |-> "InlineModelConverterBase"]
    /\ UNCHANGED <<descriptors, hookLog, registryVars, formVars>>

\* a resolution that consults column_labels before form_label
get_label_labels_first(v, info, name) ==
    LET form_name == getattr(info.attrs, "form_label")
        column_labels == v.column_labels
    IN IF ~column_labels.none /\ name \in DOMAIN column_labels.items
       THEN column_labels.items[name]
       ELSE IF Truthy(form_name) THEN form_name ELSE None

get_label(v, info, name) ==
    LET form_name == getattr(info.attrs, "form_label")
        column_labels == v.column_labels
    IN IF Truthy(form_name) THEN form_name
       ELSE IF /\ ~column_labels.none
               /\ ~EmptyMapping(column_labels.items)
               /\ name \in DOMAIN column_labels.items
            THEN column_labels.items[name]
            ELSE None

GetLabel(i, name) ==
    /\ view # NoView
    /\ last' = [op |-> "get_label", d |-> i, name |-> name,
                result |-> get_label(view, descriptors[i], name)]
    /\ UNCHANGED <<inlineVars, registryVars, formVars>>

\* `return None` of get_info
NoInfo == 0

\* the shapes of the argument of get_info
Tuple(model, options) == [shape |-> "tuple", model |-> model, options |-> options, ref |-> 0]
Instance(i) == [shape |-> "instance", model |-> None, options |-> <<>>, ref |-> i]
ModelClass(model) == [shape |-> "class", model |-> model, options |-> <<>>, ref |-> 0]

\* a test that takes every descriptor for an instance of form_admin_class
isinstance_any_descriptor(d) == TRUE

\* isinstance(p, self.form_admin_class), with form_admin_class = InlineFormAdmin
isinstance_form_admin_class(d) == d.cls = "InlineFormAdmin"

\* The outcome of get_info: the heap of descriptors afterwards and the
\* descriptor returned.
get_info(p, heap) ==
    IF p.shape = "tuple"
    THEN [descriptors |-> Append(heap,
              [cls |-> "InlineFormAdmin", hook |-> on_model_change,
               attrs |-> InlineFormAdmin_init(EmptyDict, p.model, p.options)]),
          result |-> Len(heap) + 1]
    ELSE IF p.shape = "instance" /\ isinstance_form_admin_class(heap[p.ref])
    THEN [descriptors |-> heap, result |-> p.ref]
    ELSE [descriptors |-> heap, result |-> NoInfo]

OptionChoices ==
    {[k \in keys |-> CASE k = "form_columns" -> "name, email"
                       [] k = "form_rules" -> "rules"
                       [] k = "form_label" -> label] :
        keys \in SUBSET {"form_columns", "form_rules", "form_label"},
        label \in {None, "", "Custom"}}

GetInfo(p) ==
    /\ view # NoView
    /\ p.shape = "tuple" => Len(descriptors) < MaxDescriptors
    /\ LET res == get_info(p, descriptors)
       IN /\ descriptors' = res.descriptors
          /\ hookLog' = IF Len(res.descriptors) > Len(descriptors)
                        THEN Append(hookLog, NewLog) ELSE hookLog
          /\ last' = [op |-> "get_info", p |-> p, result |-> res.result,
                      before |-> descriptors]
    /\ UNCHANGED <<view, registryVars, formVars>>

----------------------------------------------------------------------------
Init ==
    /\ dicts = <<>>
    /\ callerDicts = {}
    /\ registries = <<>>
    /\ srcForm = NoForm
    /\ kwargsWidget = <<>>
    /\ derived = <<>>
    /\ ncalls = 0
    /\ descriptors = <<>>
    /\ hookLog = <<>>
    /\ view = NoView
    /\ last = NoOp

NextRegistry ==
    \/ \E m \in SeedMappings : NewSeed(m)
    \/ \E members \in ConverterClasses, seed \in {NoSeed} \cup callerDicts,
          use_mro \in BOOLEAN : ModelConverterBase_init(members, seed, use_mro)
    \/ \E r \in DOMAIN registries, col \in ColTypes : GetConverter(r, col)

SpecRegistry == Init /\ [][NextRegistry]_vars

NextListForm ==
    \/ \E f \in FormClasses : DefineForm(f)
    \/ \E widget \in {NoWidget} \cup CallerWidgets :
          \E order \in IterOrders(DictKeys(srcForm)) :
             CreateEditableListForm(widget, order)

SpecListForm == Init /\ [][NextListForm]_vars

NextHook ==
    \/ \E hook \in Hooks, kwargs \in {EmptyDict, [k \in {"model"} |-> "Post"]} :
          NewInlineBaseFormAdmin(hook, EmptyDict, kwargs)
    \/ \E hook \in Hooks : NewInlineFormAdmin(hook, EmptyDict, "Post", EmptyDict)
    \/ \E i \in DOMAIN descriptors, is_created \in BOOLEAN : OnModelChange(i, is_created)

SpecHook == Init /\ [][NextHook]_vars

\* The hook on relational descriptors alone, which always have a model.
NextHookRelational ==
    \/ \E hook \in Hooks,
          kwargs \in {EmptyDict, [k \in {"form_columns"} |-> "name, email"],
                      [k \in {"form_label"} |-> "Custom"]} :
          NewInlineFormAdmin(hook, EmptyDict, "Post", kwargs)
    \/ \E i \in DOMAIN descriptors, is_created \in BOOLEAN : OnModelChange(i, is_created)

SpecHookRelational == Init /\ [][NextHookRelational]_vars

NextInline ==
    \/ \E v \in Views : NewInlineModelConverter(v)
    \/ \E classAttrs \in {EmptyDict, [k \in {"form_label"} |-> "Custom"]} :
          NewInlineBaseFormAdmin(on_model_change, classAttrs, EmptyDict)
    \/ \E classAttrs \in {EmptyDict, [k \in {"form_columns"} |-> "name, email"]},
          kwargs \in {EmptyDict, [k \in {"form_label"} |-> "Custom"]} :
          NewInlineFormAdmin(on_model_change, classAttrs, "Post", kwargs)
    \/ \E p \in {Tuple("Post", o) : o \in OptionChoices}
                \cup {Instance(i) : i \in DOMAIN descriptors}
                \cup {ModelClass("Post")} : GetInfo(p)
    \/ \E i \in DOMAIN descriptors, name \in FieldNames : GetLabel(i, name)

SpecInline == Init /\ [][NextInline]_vars

----------------------------------------------------------------------------
(* Claims about the converter registry and the resolver *)

Min(S) == CHOOSE x \in S : \A y \in S : x <= y

\* C1: get_converter returns the converter registered under the qualified
\* name of the first candidate type that has one; failing that for every
\* candidate, the converter registered under the bare name of the first
\* candidate that has one; failing both, None. The candidates are the MRO of
\* the column's type when use_mro is set and the exact type alone otherwise.
\* For the chain [T, A, B] with only the bare name "B" registered the result
\* is B's converter with use_mro and None without.
C1_TwoPassResolution ==
    last.op = "get_converter" =>
        LET reg == registries[last.reg]
            conv == dicts[reg.converters]
            cand == IF reg.use_mro THEN getmro(last.col) ELSE <<last.col>>
            Q == {i \in DOMAIN cand :
                    (TypeModule(cand[i]) \o "." \o TypeName(cand[i])) \in DOMAIN conv}
            N == {i \in DOMAIN cand : TypeName(cand[i]) \in DOMAIN conv}
        IN /\ Q # {} =>
                last.result = conv[TypeModule(cand[Min(Q)]) \o "." \o TypeName(cand[Min(Q)])]
           /\ (Q = {} /\ N # {}) => last.result = conv[TypeName(cand[Min(N)])]
           /\ (Q = {} /\ N = {}) => last.result = None
           /\ (last.col = "T" /\ DOMAIN conv = {"B"}) =>
                last.result = IF reg.use_mro THEN conv["B"] ELSE None

C1_Witness ==
    /\ last.op = "get_converter"
    /\ last.col = "T"
    /\ registries[last.reg].use_mro
    /\ DOMAIN dicts[registries[last.reg].converters] = {"B"}
    /\ last.result = "conv_b"

\* The identifiers claimed by the tagged members
Claimed(members) ==
    UNION {members[i].converter_for : i \in {j \in DOMAIN members : HasTag(members[j])}}

\* C5: right after construction from a seed S, every identifier claimed by a
\* tagged member maps to a tagged member that claims it, every seed
\* identifier claimed by no member keeps its seed converter, and there is no
\* other key; untagged members contribute nothing.
C5_SeedOverriddenByTags ==
    last.op = "__init__" =>
        LET conv == dicts[registries[last.reg].converters]
            S == last.seed
            members == last.members
            tagged == {i \in DOMAIN members : HasTag(members[i])}
        IN /\ \A i \in tagged : \A id \in members[i].converter_for :
                /\ id \in DOMAIN conv
                /\ \E j \in tagged : /\ id \in members[j].converter_for
                                     /\ conv[id] = members[j].name
           /\ \A id \in DOMAIN S \ Claimed(members) :
                id \in DOMAIN conv /\ conv[id] = S[id]
           /\ DOMAIN conv = DOMAIN S \cup Claimed(members)

C5_Witness ==
    /\ last.op = "__init__"
    /\ DOMAIN last.seed = {"B", "T"}
    /\ \E i \in DOMAIN last.members : ~HasTag(last.members[i])
    /\ LET conv == dicts[registries[last.reg].converters]
       IN conv["B"] = "conv_b" /\ conv["T"] = "seed_g"

\* C8: once a registry is constructed no operation changes its mapping, and
\* constructing a registry leaves the caller's seed mapping as it was.
C8_RegistryImmutable ==
    [][/\ \A r \in DOMAIN registries :
            dicts'[registries'[r].converters] = dicts[registries[r].converters]
       /\ \A s \in callerDicts : dicts'[s] = dicts[s]]_vars

----------------------------------------------------------------------------
(* Claims about the list-form transformer *)

\* C2: when the source form class declares no field named list_form_pk, the
\* call returns without raising a class derived from the base whose fields
\* are exactly the source's fields, each under its own name, plus one
\* list_form_pk, a hidden field with an input-required validator.
C2_FieldsPlusReserved ==
    (last.op = "create_editable_list_form" /\ "list_form_pk" \notin Fields(srcForm)) =>
        /\ ~last.raised
        /\ last.ret = Len(derived)
        /\ LET ListForm == derived[last.ret]
           IN /\ ListForm.base = "BaseForm"
              /\ DOMAIN ListForm.attrs = Fields(srcForm) \cup {"list_form_pk"}
              /\ ListForm.attrs["list_form_pk"].obj = "HiddenField"
              /\ ListForm.attrs["list_form_pk"].validators = <<"InputRequired">>
              /\ \A n \in Fields(srcForm) :
                    ListForm.attrs[n] = [obj |-> "UnboundField", name |-> n]

C2_Witness ==
    /\ last.op = "create_editable_list_form"
    /\ Fields(srcForm) = {"a", "b"}
    /\ srcForm["list_form_pk"] = "other"
    /\ ~last.raised
    /\ DOMAIN derived[last.ret].attrs = {"a", "b", "list_form_pk"}

\* C3: when the source form class declares a field named list_form_pk, every
\* call raises and no derived class is ever returned, wherever the field falls
\* in the iteration order.
C3_CollisionRaises ==
    (srcForm # NoForm /\ "list_form_pk" \in Fields(srcForm)) =>
        /\ derived = <<>>
        /\ last.op = "create_editable_list_form" => (last.raised /\ last.ret = 0)

C3_Witness ==
    /\ last.op = "create_editable_list_form"
    /\ Fields(srcForm) = {"a", "b", "list_form_pk"}
    /\ last.order[Len(last.order)] = "list_form_pk"
    /\ last.raised
    /\ derived = <<>>

\* C9: every field of each derived class returned so far carries the widget
\* supplied to the call that produced the class, and the fields of the source
\* form class are as they were before the calls.
C9_DerivationsIndependent ==
    srcForm # NoForm =>
        /\ \A k \in DOMAIN derived : \A n \in DOMAIN derived[k].attrs :
              derived[k].attrs[n].obj = "UnboundField" =>
                  kwargsWidget[derived[k].attrs[n].name] = derived[k].widget
        /\ \A n \in Fields(srcForm) : kwargsWidget[n] = NoWidget

----------------------------------------------------------------------------
(* Claims about the change hook *)

\* C4: for a descriptor, base or relational, whose on_model_change accepts
\* only (form, model), every wrapper invocation emits a warning and runs the
\* override once, with two arguments and without error: after n invocations
\* there were n warnings and n runs of the body.
C4_TwoArgumentHookRetried ==
    \A i \in DOMAIN descriptors :
        (descriptors[i].hook = [params |-> "form, model", body |-> "pass"]) =>
            /\ hookLog[i].warnings = hookLog[i].invocations
            /\ hookLog[i].runs = hookLog[i].invocations
            /\ (last.op = "_on_model_change" /\ last.d = i) =>
                    (last.ran = <<2>> /\ last.error = None)

\* C10: for a descriptor whose on_model_change accepts three arguments, each
\* wrapper invocation calls the hook once, with three arguments, and emits no
\* warning; an error raised in the body reaches the caller as that error.
C10_RetryOnlyOnSignatureMismatch ==
    \A i \in DOMAIN descriptors :
        (descriptors[i].hook.params # "form, model") =>
            /\ hookLog[i].warnings = 0
            /\ hookLog[i].calls = hookLog[i].invocations
            /\ hookLog[i].runs = hookLog[i].invocations
            /\ (last.op = "_on_model_change" /\ last.d = i) =>
                    /\ last.ran = <<3>>
                    /\ last.error = CallHook(descriptors[i].hook, 3).error

----------------------------------------------------------------------------
(* Claims about the inline converter base *)

\* C6 as stated: a descriptor that has a form_label set gets that value,
\* whatever column_labels holds.
C6_FormLabelSetWins ==
    (last.op = "get_label" /\ getattr(descriptors[last.d].attrs, "form_label") # None) =>
        last.result = descriptors[last.d].attrs["form_label"]

\* C6, amended: get_label returns the descriptor's form_label when it is set
\* to a non-empty value, whatever column_labels holds; otherwise (form_label
\* missing, None or empty) the view's column_labels[name] when the view has a
\* column_labels containing name; otherwise None.
C6_LabelResolutionOrder ==
    last.op = "get_label" =>
        LET attrs == descriptors[last.d].attrs
            set == "form_label" \in DOMAIN attrs /\ attrs["form_label"] \notin {None, ""}
            cl == view.column_labels
            listed == ~cl.none /\ last.name \in DOMAIN cl.items
        IN /\ set => last.result = attrs["form_label"]
           /\ (~set /\ listed) => last.result = cl.items[last.name]
           /\ (~set /\ ~listed) => last.result = None

C6_Witness ==
    /\ last.op = "get_label"
    /\ last.name = "email"
    /\ getattr(descriptors[last.d].attrs, "form_label") = "Custom"
    /\ ~view.column_labels.none
    /\ "email" \in DOMAIN view.column_labels.items
    /\ last.result = "Custom"

\* C7: get_info of a tuple (model, options) returns a new InlineFormAdmin
\* whose model is the tuple's first element, whose attributes include every
\* option and whose other default attributes are None; of an instance of
\* form_admin_class, that same instance, unchanged; of anything else, None.
C7_InfoByShape ==
    last.op = "get_info" =>
        LET p == last.p
            isDescriptor == p.shape = "instance" /\ last.before[p.ref].cls = "InlineFormAdmin"
        IN /\ p.shape = "tuple" =>
                /\ last.result \in DOMAIN descriptors \ DOMAIN last.before
                /\ \A i \in DOMAIN last.before : descriptors[i] = last.before[i]
                /\ LET d == descriptors[last.result]
                   IN /\ d.cls = "InlineFormAdmin"
                      /\ d.attrs["model"] = p.model
                      /\ \A k \in DOMAIN p.options : d.attrs[k] = p.options[k]
                      /\ \A k \in defaults \ DOMAIN p.options : d.attrs[k] = None
           /\ isDescriptor => (last.result = p.ref /\ descriptors = last.before)
           /\ (p.shape # "tuple" /\ ~isDescriptor) =>
                (last.result = NoInfo /\ descriptors = last.before)

C7_Witness ==
    /\ last.op = "get_info"
    /\ last.p.shape = "tuple"
    /\ DOMAIN last.p.options = {"form_columns", "form_label"}
    /\ last.p.options["form_label"] = "Custom"
    /\ descriptors[last.result].attrs["form_columns"] = "name, email"
    /\ descriptors[last.result].attrs["form_args"] = None

====
